---- MODULE Spec2Model ----
(***************************************************************************)
(* Model of the reference-data utilities of p-sira/ellip:                  *)
(*   src/cpp/boost_ellippi_f64.cpp   whitespace-delimited generator (main) *)
(*   src/tests/data/boost/carlson.cpp comma-delimited generator            *)
(*                                    (split, process_carlson, main)       *)
(*   src/cpp/extract_test_data.cpp   literal extractor (extract_ipp_data)  *)
(*   src/cpp/util.cpp                split_words                           *)
(* Text is a sequence of one-character strings, a file a sequence of       *)
(* lines.  The numeric library functions (ellip3, ellint_rf, ...) are      *)
(* external and opaque: a result is represented by the arguments it was    *)
(* computed from.                                                          *)
(***************************************************************************)
EXTENDS Integers, Sequences, FiniteSets

\* ------------------------------------------------------------------------
\* Bounds of the model
\* ------------------------------------------------------------------------
MaxGenLines == 3   \* lines of a generator input file
MaxExtLines == 4   \* lines of the extractor input file
MaxBuf == 2        \* records an output stream buffer may hold before it writes

\* ------------------------------------------------------------------------
\* Characters and text helpers
\* ------------------------------------------------------------------------
Digit == {"0", "1", "2", "3", "4", "5", "6", "7", "8", "9"}

DigitVal(c) ==
  CASE c = "0" -> 0 [] c = "1" -> 1 [] c = "2" -> 2 [] c = "3" -> 3
    [] c = "4" -> 4 [] c = "5" -> 5 [] c = "6" -> 6 [] c = "7" -> 7
    [] c = "8" -> 8 [] c = "9" -> 9

DigitChar(d) ==
  CASE d = 0 -> "0" [] d = 1 -> "1" [] d = 2 -> "2" [] d = 3 -> "3"
    [] d = 4 -> "4" [] d = 5 -> "5" [] d = 6 -> "6" [] d = 7 -> "7"
    [] d = 8 -> "8" [] d = 9 -> "9"

\* std::isspace in the "C" locale, restricted to the characters of the model
IsSpace(c) == c \in {" ", "\t"}

\* the text s from position p to its end
Tail_(s, p) == SubSeq(s, p, Len(s))

\* std::string::find(pat) != npos
Find(s, pat) ==
  \E i \in 1..(Len(s) - Len(pat) + 1) : SubSeq(s, i, i + Len(pat) - 1) = pat

\* first position q >= p of s holding a character outside set S (Len(s)+1 if none)
RunEnd(s, p, S) ==
  CHOOSE q \in p..(Len(s) + 1) :
    /\ \A j \in p..(q - 1) : s[j] \in S
    /\ q = Len(s) + 1 \/ s[q] \notin S

\* first position q >= p of s holding the character c (Len(s)+1 if none)
NextChar(s, p, c) ==
  CHOOSE q \in p..(Len(s) + 1) :
    /\ \A j \in p..(q - 1) : s[j] # c
    /\ q = Len(s) + 1 \/ s[q] = c

RECURSIVE ToNat(_)
ToNat(ds) ==
  IF ds = <<>> THEN 0
  ELSE 10 * ToNat(SubSeq(ds, 1, Len(ds) - 1)) + DigitVal(ds[Len(ds)])

RECURSIVE NatDigits(_)
NatDigits(n) ==
  IF n < 10 THEN <<DigitChar(n)>>
  ELSE Append(NatDigits(n \div 10), DigitChar(n % 10))

RECURSIVE Pow(_, _)
Pow(b, k) == IF k = 0 THEN 1 ELSE b * Pow(b, k - 1)

RECURSIVE Zeros(_)
Zeros(k) == IF k <= 0 THEN <<>> ELSE <<"0">> \o Zeros(k - 1)

\* ------------------------------------------------------------------------
\* util.cpp: split_words -- istream_iterator<string> over the line
\* ------------------------------------------------------------------------
RECURSIVE SplitWordsFrom(_, _, _)
SplitWordsFrom(s, p, words) ==
  LET b == RunEnd(s, p, {" ", "\t"})            \* operator>> skips whitespace
      e == CHOOSE q \in b..(Len(s) + 1) :       \* then reads up to whitespace
             /\ \A j \in b..(q - 1) : ~IsSpace(s[j])
             /\ q = Len(s) + 1 \/ IsSpace(s[q])
  IN  IF b > Len(s) THEN words
      ELSE SplitWordsFrom(s, e, Append(words, SubSeq(s, b, e - 1)))

split_words(input) == SplitWordsFrom(input, 1, <<>>)

\* ------------------------------------------------------------------------
\* carlson.cpp: split -- std::getline(iss, token, ',') until it fails
\* ------------------------------------------------------------------------
RECURSIVE SplitFrom(_, _, _)
SplitFrom(s, p, tokens) ==
  IF p > Len(s) THEN tokens      \* nothing left to extract: getline fails
  ELSE LET q == NextChar(s, p, ",")
       IN  SplitFrom(s, q + 1, Append(tokens, SubSeq(s, p, q - 1)))

split(line) == SplitFrom(line, 1, <<>>)

\* ------------------------------------------------------------------------
\* std::stod.  A double is represented by the decimal it was read from:
\* [neg, m, e] stands for (-1)^neg * m * 10^e, with m not divisible by 10
\* (m = 0 has e = 0).  Decimals of at most 15 digits denote distinct doubles.
\* ------------------------------------------------------------------------
RECURSIVE Norm(_, _, _)
Norm(neg, m, e) ==
  IF m = 0 THEN [neg |-> neg, m |-> 0, e |-> 0]
  ELSE IF m % 10 = 0 THEN Norm(neg, m \div 10, e + 1)
  ELSE [neg |-> neg, m |-> m, e |-> e]

\* 17-digit texts of the doubles nearest to decimals that binary cannot
\* represent exactly (printf "%.17g" of 0.1 and 0.3)
Inexact17 ==
  [v \in { [neg |-> FALSE, m |-> 1, e |-> -1], [neg |-> FALSE, m |-> 3, e |-> -1] } |->
     IF v.m = 1
     THEN <<"0", ".", "1", "0", "0", "0", "0", "0", "0", "0", "0", "0", "0", "0", "0", "0", "0", "0", "1">>
     ELSE <<"0", ".", "2", "9", "9", "9", "9", "9", "9", "9", "9", "9", "9", "9", "9", "9", "9", "9", "9">>]

\* ok = FALSE: no conversion could be performed, std::invalid_argument is thrown.
\* A mantissa too long to be a decimal of the representation is the 17-digit
\* text of a double, and is read back as that double.
stod(s) ==
  LET p0   == RunEnd(s, 1, {" ", "\t"})
      sgn  == p0 <= Len(s) /\ s[p0] \in {"+", "-"}
      neg  == sgn /\ s[p0] = "-"
      p1   == IF sgn THEN p0 + 1 ELSE p0
      p2   == RunEnd(s, p1, Digit)
      dot  == p2 <= Len(s) /\ s[p2] = "."
      p3   == IF dot THEN RunEnd(s, p2 + 1, Digit) ELSE p2
      ipart == SubSeq(s, p1, p2 - 1)
      fpart == IF dot THEN SubSeq(s, p2 + 1, p3 - 1) ELSE <<>>
      hasE == p3 <= Len(s) /\ s[p3] \in {"e", "E"}
      esgn == hasE /\ p3 + 1 <= Len(s) /\ s[p3 + 1] \in {"+", "-"}
      p4   == IF esgn THEN p3 + 2 ELSE p3 + 1
      p5   == IF hasE THEN RunEnd(s, p4, Digit) ELSE p4
      expOK == hasE /\ p5 > p4
      ex   == IF expOK
              THEN (IF esgn /\ s[p3 + 1] = "-" THEN -1 ELSE 1) * ToNat(SubSeq(s, p4, p5 - 1))
              ELSE 0
  IN  IF Len(ipart) + Len(fpart) = 0
      THEN [ok |-> FALSE, val |-> [neg |-> FALSE, m |-> 0, e |-> 0]]
      ELSE IF Len(ipart) + Len(fpart) > 15
      THEN LET v == CHOOSE w \in DOMAIN Inexact17 : Inexact17[w] = SubSeq(s, p1, p3 - 1)
           IN  [ok |-> TRUE, val |-> [neg |-> neg, m |-> v.m, e |-> v.e + ex]]
      ELSE [ok |-> TRUE, val |-> Norm(neg, ToNat(ipart \o fpart), ex - Len(fpart))]

\* ------------------------------------------------------------------------
\* operator<<(double) under std::setprecision(17) (printf "%.17g").
\* A value exactly representable in binary prints its exact decimal digits;
\* another value prints the 17 digits of the nearest double, taken from the
\* table Inexact17.
\* ------------------------------------------------------------------------
Format17(v) ==
  LET sign == IF v.neg THEN <<"-">> ELSE <<>>
      k    == -v.e
      ds   == NatDigits(v.m)
      pad  == Zeros(k + 1 - Len(ds)) \o ds
  IN  CASE v.e >= 0 /\ Len(ds) + v.e <= 17 -> sign \o ds \o Zeros(v.e)
        [] v.e < 0 /\ k <= 4 /\ v.m % Pow(5, k) = 0 ->
             sign \o SubSeq(pad, 1, Len(pad) - k) \o <<".">> \o Tail_(pad, Len(pad) - k + 1)
        [] v.e < 0 /\ v \in DOMAIN Inexact17 -> Inexact17[v]

\* ------------------------------------------------------------------------
\* Input lines of the model
\* ------------------------------------------------------------------------
\* ellippi2_data.txt (whitespace-delimited): empty, one field, two fields,
\* leading/repeated blanks with a third field, unparsable field 0, unparsable field 1
EllippiLines ==
  { <<>>,
    <<"1">>,
    <<"1", " ", ".", "5">>,
    <<" ", "1", " ", " ", ".", "5", " ", "2">>,
    <<"x", " ", ".", "5">>,
    <<"1", " ", "y">> }

\* ../wolfram/*.csv (comma-delimited): empty, 2, 3 and 4 fields, texts that are
\* not in 17-digit form, an unparsable field, a trailing comma
CarlsonLines ==
  { <<>>,
    <<"1", ",", "2">>,
    <<"1", ",", "2", ",", "3">>,
    <<"1", ",", "2", ",", "3", ",", "4">>,
    <<"1", ".", "0", ",", "0", ".", "1", ",", ".", "5", ",", "2">>,
    <<"1", ",", "x", ",", "3", ",", "4">>,
    <<"1", ",", "2", ",", "3", ",">> }

\* *.ipp source text: start line (itself holding a token), closing line, indented
\* closing line, row of two tokens, marker without a number, no marker, empty
StartLine == <<"s", "t", "a", "t", "i", "c", " ", "c", "o", "n", "s", "t", " ", "s", "t", "d", ":", ":", "a", "r", "r", "a", "y", " ", "S", "C", "_", "(", "9", ")">>
CloseLine == <<"}", "}", ";">>
IndentedCloseLine == <<" ", " ", "}", "}", ";">>
RowLine == <<"{", "{", "S", "C", "_", "(", "1", ".", "0", ")", ",", " ", "S", "C", "_", "(", "-", "2", "e", "-", "1", ")", "}", "}", ",">>
ExtractLines ==
  { StartLine, CloseLine, IndentedCloseLine, RowLine,
    <<"S", "C", "_", "(", "x", ")">>,
    <<"_", "(", "4", ")">>,
    <<>> }

Files(L, K) == UNION { [1..n -> L] : n \in 0..K }

Progs == {"ellippi", "carlson", "extract"}

InputFiles(p) ==
  CASE p = "ellippi" -> Files(EllippiLines, MaxGenLines)
    [] p = "carlson" -> Files(CarlsonLines, MaxGenLines)
    [] p = "extract" -> Files(ExtractLines, MaxExtLines)

\* carlson.cpp main: the nargs argument of its four process_carlson calls
Arity == <<3, 3, 4, 4>>
NumCalls == 4

\* values an out-of-bounds vector element may be read as
GarbageVals == { [neg |-> FALSE, m |-> 7, e |-> 0] }

\* ------------------------------------------------------------------------
\* State
\* ------------------------------------------------------------------------
VARIABLES
  prog,       \* the program that runs
  in_ok,      \* environment: the input file can be opened
  out_ok,     \* environment: the output file can be opened
  bufcap,     \* build: records the ofstream buffer holds before it writes them
  fin,        \* content of the input file
  call,       \* carlson main: index of the process_carlson call being executed
  pc,         \* control position
  pos,        \* lines std::getline has consumed
  out,        \* records inserted into the output stream
  src,        \* history: for each record of out, the input line it came from
  disk,       \* content of the output file
  msgs,       \* messages printed on cerr / cout
  run,        \* 1 in the first run of the program, 2 in a repeated run
  prev_disk   \* content of the output file at the end of the first run

vars == <<prog, in_ok, out_ok, bufcap, fin, call, pc, pos, out, src, disk, msgs, run, prev_disk>>

env == <<prog, in_ok, out_ok, bufcap, fin, call, run, prev_disk>>

Init ==
  /\ prog \in Progs
  /\ in_ok \in BOOLEAN
  /\ out_ok \in BOOLEAN
  \* the extractor has no abnormal exit, its buffering cannot be observed
  /\ bufcap \in (IF prog = "extract" THEN {1} ELSE 1..MaxBuf)
  /\ fin \in (IF in_ok THEN InputFiles(prog) ELSE {<<>>})
  /\ call = 1
  /\ pc = "start"
  /\ pos = 0
  /\ out = <<>>
  /\ src = <<>>
  /\ disk = <<>>
  /\ msgs = <<>>
  /\ run = 1
  /\ prev_disk = <<>>

\* ------------------------------------------------------------------------
\* Output stream
\* ------------------------------------------------------------------------
\* std::ofstream(path): an opened file is truncated
OpenTruncate(d) == IF out_ok THEN <<>> ELSE d

\* operator<< of one record; the buffer is written out when it is full.
\* Nothing is inserted into a stream that failed to open.
Write(rec) ==
  IF out_ok
  THEN /\ out' = Append(out, rec)
       /\ src' = Append(src, pos + 1)
       /\ disk' = IF Len(out) + 1 - Len(disk) >= bufcap THEN Append(out, rec) ELSE disk
  ELSE UNCHANGED <<out, src, disk>>

\* ~ofstream on return from the function: the buffer is flushed
CloseFlush(d) == IF out_ok THEN out ELSE d

\* uncaught exception -> std::terminate -> abort: the stack is not unwound,
\* the stream is not destroyed and what is still buffered is lost.  (A build
\* that unwinds leaves what bufcap = 1 leaves.)
Terminate ==
  /\ pc' = "aborted"
  /\ pos' = pos + 1
  /\ UNCHANGED <<out, src, disk, msgs>>

\* ------------------------------------------------------------------------
\* boost_ellippi_f64.cpp: main
\* ------------------------------------------------------------------------
EllippiOpen ==
  /\ prog = "ellippi" /\ pc = "start"
  /\ disk' = OpenTruncate(disk)
  /\ IF ~in_ok \/ ~out_ok
     THEN /\ msgs' = Append(msgs, "Cannot open file")
          /\ pc' = "exit1"
     ELSE /\ pc' = "loop"
          /\ UNCHANGED msgs
  /\ UNCHANGED <<env, pos, out, src>>

\* loop body on a line of at least two words
EllippiRow ==
  /\ prog = "ellippi" /\ pc = "loop" /\ pos < Len(fin)
  /\ LET line == fin[pos + 1]
         inp  == split_words(line)
     IN  /\ Len(inp) >= 2
         /\ LET k == stod(inp[2])
                v == stod(inp[1])
            IN  IF ~k.ok \/ ~v.ok
                THEN Terminate
                ELSE /\ Write([pre |-> line \o <<" ", " ", " ", " ">>,
                               res |-> <<k.val, v.val>>])
                     /\ pos' = pos + 1
                     /\ UNCHANGED <<pc, msgs>>
  /\ UNCHANGED env

\* loop body on a line of fewer than two words: inp[1] (and inp[0] of an empty
\* vector) is read out of bounds, which is undefined.  The run may fault, the
\* bytes read may not parse, or they may parse to any value.
EllippiRowShort ==
  /\ prog = "ellippi" /\ pc = "loop" /\ pos < Len(fin)
  /\ LET line == fin[pos + 1]
         inp  == split_words(line)
     IN  /\ Len(inp) < 2
         /\ \/ /\ pc' = "crashed"
               /\ pos' = pos + 1
               /\ UNCHANGED <<out, src, disk, msgs>>
            \/ Terminate
            \/ \E k \in GarbageVals, g \in GarbageVals :
                 LET v == IF Len(inp) = 1 THEN stod(inp[1])
                          ELSE [ok |-> TRUE, val |-> g]
                 IN  /\ v.ok
                     /\ Write([pre |-> line \o <<" ", " ", " ", " ">>,
                               res |-> <<k, v.val>>])
                     /\ pos' = pos + 1
                     /\ UNCHANGED <<pc, msgs>>
  /\ UNCHANGED env

\* getline fails at end of file; return 0 destroys the streams
EllippiEnd ==
  /\ prog = "ellippi" /\ pc = "loop" /\ pos = Len(fin)
  /\ disk' = CloseFlush(disk)
  /\ pc' = "exit0"
  /\ UNCHANGED <<env, pos, out, src, msgs>>

\* ------------------------------------------------------------------------
\* carlson.cpp: process_carlson and main
\* ------------------------------------------------------------------------
nargs == Arity[call]

\* fout << args[0] << "," << ... << args[nargs-1], then "," before the result
RECURSIVE ArgsText(_, _)
ArgsText(args, i) ==
  IF i > Len(args) THEN <<>>
  ELSE Format17(args[i]) \o (IF i < Len(args) THEN <<",">> ELSE <<>>) \o ArgsText(args, i + 1)

\* variant of CarlsonRecord: the separator test is off by one (i < nargs - 2)
RECURSIVE ArgsText_noLastComma(_, _)
ArgsText_noLastComma(args, i) ==
  IF i > Len(args) THEN <<>>
  ELSE Format17(args[i]) \o (IF i < Len(args) - 1 THEN <<",">> ELSE <<>>)
         \o ArgsText_noLastComma(args, i + 1)

CarlsonRecord_noLastComma(args) ==
  [pre |-> ArgsText_noLastComma(args, 1) \o <<",">>, res |-> args]

CarlsonRecord(args) == [pre |-> ArgsText(args, 1) \o <<",">>, res |-> args]

\* variant of SkipRow: the field count test is off by one
SkipRow_offByOne(line, tokens) == line = <<>> \/ Len(tokens) <= nargs

\* if (line.empty()) continue; ... if ((int)tokens.size() < nargs) continue;
SkipRow(line, tokens) == line = <<>> \/ Len(tokens) < nargs

CarlsonOpen ==
  /\ prog = "carlson" /\ pc = "start"
  /\ disk' = OpenTruncate(disk)
  /\ pc' = "loop"
  /\ UNCHANGED <<env, pos, out, src, msgs>>

CarlsonRow ==
  /\ prog = "carlson" /\ pc = "loop" /\ in_ok /\ pos < Len(fin)
  /\ LET line   == fin[pos + 1]
         tokens == split(line)
         parsed == [i \in 1..nargs |-> stod(tokens[i])]
     IN  IF SkipRow(line, tokens)
         THEN /\ pos' = pos + 1
              /\ UNCHANGED <<pc, out, src, disk, msgs>>
         ELSE IF \E i \in 1..nargs : ~parsed[i].ok
         THEN Terminate
         ELSE /\ Write(CarlsonRecord([i \in 1..nargs |-> parsed[i].val]))
              /\ pos' = pos + 1
              /\ UNCHANGED <<pc, msgs>>
  /\ UNCHANGED env

\* getline fails (end of file, or the input never opened): the message is
\* printed and the function returns, destroying the streams
CarlsonEnd ==
  /\ prog = "carlson" /\ pc = "loop" /\ (~in_ok \/ pos = Len(fin))
  /\ msgs' = Append(msgs, "Generated")
  /\ disk' = CloseFlush(disk)
  /\ pc' = "returned"
  /\ UNCHANGED <<env, pos, out, src>>

\* main goes on to its next process_carlson call; the files of the call that
\* returned are no longer followed
MainNextCall ==
  /\ prog = "carlson" /\ pc = "returned" /\ call < NumCalls
  /\ call' = call + 1
  /\ pc' = "call"
  /\ in_ok' = FALSE /\ out_ok' = FALSE /\ fin' = <<>>
  /\ pos' = 0 /\ out' = <<>> /\ src' = <<>> /\ disk' = <<>>
  /\ UNCHANGED <<prog, bufcap, msgs, run, prev_disk>>

\* the files named by the arguments of the call: any input file of the model,
\* an output file that does not exist yet
DatasetFiles ==
  /\ prog = "carlson" /\ pc = "call"
  /\ in_ok' \in BOOLEAN
  /\ out_ok' \in BOOLEAN
  /\ fin' \in (IF in_ok' THEN InputFiles(prog) ELSE {<<>>})
  /\ pc' = "start"
  /\ UNCHANGED <<prog, bufcap, call, pos, out, src, disk, msgs, run, prev_disk>>

MainReturn ==
  /\ prog = "carlson" /\ pc = "returned" /\ call = NumCalls
  /\ pc' = "exit0"
  /\ UNCHANGED <<env, pos, out, src, disk, msgs>>

\* ------------------------------------------------------------------------
\* extract_test_data.cpp: extract_ipp_data and main
\* ------------------------------------------------------------------------
StartMarker == <<"s", "t", "a", "t", "i", "c", " ", "c", "o", "n", "s", "t", " ", "s", "t", "d", ":", ":", "a", "r", "r", "a", "y">>
CloseMarker == <<"}", "}">>
RowMarker == <<"S", "C", "_">>
CloseLenLimit == 5

AllDigits(u) == \A i \in 1..Len(u) : u[i] \in Digit

\* [0-9]*\.?[0-9]+
IsMantissa(u) ==
  \/ Len(u) >= 1 /\ AllDigits(u)
  \/ \E d \in 1..(Len(u) - 1) :
       /\ u[d] = "."
       /\ AllDigits(SubSeq(u, 1, d - 1))
       /\ AllDigits(Tail_(u, d + 1))

\* [eE][-+]?[0-9]+
IsExponent(u) ==
  /\ Len(u) >= 2
  /\ u[1] \in {"e", "E"}
  /\ LET r == IF u[2] \in {"+", "-"} THEN Tail_(u, 3) ELSE Tail_(u, 2)
     IN  Len(r) >= 1 /\ AllDigits(r)

\* the capture group of number_pattern: [-+]?[0-9]*\.?[0-9]+(?:[eE][-+]?[0-9]+)?
IsNumber(t) ==
  LET b == IF Len(t) >= 1 /\ t[1] \in {"+", "-"} THEN Tail_(t, 2) ELSE t
  IN  \E c \in 1..Len(b) :
        /\ IsMantissa(SubSeq(b, 1, c))
        /\ c = Len(b) \/ IsExponent(Tail_(b, c + 1))

\* the sregex_iterator loop: successive non-overlapping matches of
\* SC_\((number)\) from position p on, each capture appended with a blank
RECURSIVE CleanedFrom(_, _, _)
CleanedFrom(line, p, cleaned) ==
  IF p > Len(line) THEN cleaned
  ELSE LET q == NextChar(line, p + 4, ")")
       IN  IF /\ p + 3 <= Len(line)
              /\ SubSeq(line, p, p + 3) = RowMarker \o <<"(">>
              /\ q <= Len(line)
              /\ IsNumber(SubSeq(line, p + 4, q - 1))
           THEN CleanedFrom(line, q + 1, cleaned \o SubSeq(line, p + 4, q - 1) \o <<" ">>)
           ELSE CleanedFrom(line, p + 1, cleaned)

\* variant of CleanedLine: each capture is put in front of the earlier ones
RECURSIVE CleanedFrom_reversed(_, _, _)
CleanedFrom_reversed(line, p, cleaned) ==
  IF p > Len(line) THEN cleaned
  ELSE LET q == NextChar(line, p + 4, ")")
       IN  IF /\ p + 3 <= Len(line)
              /\ SubSeq(line, p, p + 3) = RowMarker \o <<"(">>
              /\ q <= Len(line)
              /\ IsNumber(SubSeq(line, p + 4, q - 1))
           THEN CleanedFrom_reversed(line, q + 1, SubSeq(line, p + 4, q - 1) \o <<" ">> \o cleaned)
           ELSE CleanedFrom_reversed(line, p + 1, cleaned)

CleanedLine_reversed(line) == CleanedFrom_reversed(line, 1, <<>>)

CleanedLine(line) == CleanedFrom(line, 1, <<>>)

\* variant of IsStart: the comparison with npos is inverted
IsStart_inverted(line) == ~Find(line, StartMarker)

\* line.find("static const std::array") != npos
IsStart(line) == Find(line, StartMarker)

\* line.find("}}") != npos && line.length() < 5
IsTerminator(line) == Find(line, CloseMarker) /\ Len(line) < CloseLenLimit

ExtractOpen ==
  /\ prog = "extract" /\ pc = "start"
  /\ disk' = OpenTruncate(disk)
  /\ pc' = "scan"
  /\ UNCHANGED <<env, pos, out, src, msgs>>

\* first loop: discard lines up to and including the start marker line
ScanLine ==
  /\ prog = "extract" /\ pc = "scan" /\ in_ok /\ pos < Len(fin)
  /\ pos' = pos + 1
  /\ pc' = IF IsStart(fin[pos + 1]) THEN "block" ELSE "scan"
  /\ UNCHANGED <<env, out, src, disk, msgs>>

\* first loop left because getline failed; the second loop's getline fails too
ScanEnd ==
  /\ prog = "extract" /\ pc = "scan" /\ (~in_ok \/ pos = Len(fin))
  /\ pc' = "block"
  /\ UNCHANGED <<env, pos, out, src, disk, msgs>>

\* variant of BlockLine: the terminator test does not leave the loop
BlockLine_noBreak ==
  /\ prog = "extract" /\ pc = "block" /\ in_ok /\ pos < Len(fin)
  /\ LET line    == fin[pos + 1]
         cleaned == CleanedLine(line)
     IN  /\ pos' = pos + 1
         /\ pc' = "block"
         /\ IF ~IsTerminator(line) /\ Find(line, RowMarker) /\ cleaned # <<>>
            THEN Write(SubSeq(cleaned, 1, Len(cleaned) - 1))
            ELSE UNCHANGED <<out, src, disk>>
  /\ UNCHANGED <<env, msgs>>

\* second loop body
BlockLine ==
  /\ prog = "extract" /\ pc = "block" /\ in_ok /\ pos < Len(fin)
  /\ LET line    == fin[pos + 1]
         cleaned == CleanedLine(line)
     IN  /\ pos' = pos + 1
         /\ IF IsTerminator(line)
            THEN /\ pc' = "done"
                 /\ UNCHANGED <<out, src, disk>>
            ELSE /\ pc' = "block"
                 /\ IF Find(line, RowMarker) /\ cleaned # <<>>
                    THEN Write(SubSeq(cleaned, 1, Len(cleaned) - 1))
                    ELSE UNCHANGED <<out, src, disk>>
  /\ UNCHANGED <<env, msgs>>

\* the second loop is over (terminator, or getline failed): extract_ipp_data
\* returns, destroying the streams, and main returns 0
ExtractReturn ==
  /\ prog = "extract"
  /\ pc = "done" \/ (pc = "block" /\ (~in_ok \/ pos = Len(fin)))
  /\ disk' = CloseFlush(disk)
  /\ pc' = "exit0"
  /\ UNCHANGED <<env, pos, out, src, msgs>>

\* ------------------------------------------------------------------------
\* The program is run again on the unchanged input (generators).  The repeated
\* run of carlson is followed at the call the first run ended in.
\* ------------------------------------------------------------------------
Exited == pc \in {"exit0", "exit1", "aborted", "crashed"}

Rerun ==
  /\ prog \in {"ellippi", "carlson"} /\ Exited /\ run = 1
  /\ run' = 2
  /\ prev_disk' = disk
  /\ pc' = "start"
  /\ pos' = 0 /\ out' = <<>> /\ src' = <<>> /\ msgs' = <<>>
  /\ UNCHANGED <<prog, in_ok, out_ok, bufcap, fin, call, disk>>

Next ==
  \/ EllippiOpen \/ EllippiRow \/ EllippiRowShort \/ EllippiEnd
  \/ CarlsonOpen \/ CarlsonRow \/ CarlsonEnd \/ MainNextCall \/ DatasetFiles
  \/ MainReturn
  \/ ExtractOpen \/ ScanLine \/ ScanEnd \/ BlockLine \/ ExtractReturn
  \/ Rerun

Spec == Init /\ [][Next]_vars

\* ------------------------------------------------------------------------
\* Vocabulary of the properties (stated without the operators of the programs)
\* ------------------------------------------------------------------------
Positions(s, c) == { i \in 1..Len(s) : s[i] = c }

\* position of the j-th occurrence of c in s; 0 for j = 0, Len(s)+1 past the last
NthPos(s, c, j) ==
  IF j = 0 THEN 0
  ELSE IF j > Cardinality(Positions(s, c)) THEN Len(s) + 1
  ELSE CHOOSE p \in Positions(s, c) :
         Cardinality({ q \in Positions(s, c) : q < p }) = j - 1

\* number of c-separated fields of s, and the j-th of them
FieldCount(s, c) == IF s = <<>> THEN 0 ELSE Cardinality(Positions(s, c)) + 1
FieldAt(s, c, j) == SubSeq(s, NthPos(s, c, j - 1) + 1, NthPos(s, c, j) - 1)

\* number of blank-separated words of s
WordCount(s) ==
  Cardinality({ i \in 1..Len(s) : ~IsSpace(s[i]) /\ (i = 1 \/ IsSpace(s[i - 1])) })

\* s without its leading and trailing blanks
Trimmed(s) ==
  LET ink == { i \in 1..Len(s) : ~IsSpace(s[i]) }
  IN  IF ink = {} THEN <<>>
      ELSE SubSeq(s, CHOOSE a \in ink : \A b \in ink : a <= b,
                     CHOOSE a \in ink : \A b \in ink : a >= b)

Increasing(q) == \A a, b \in 1..Len(q) : a < b => q[a] < q[b]
Range(q) == { q[k] : k \in 1..Len(q) }

Generator == prog \in {"ellippi", "carlson"}

\* a row with fewer fields than the function requires
ShortRow(line) ==
  IF prog = "ellippi" THEN WordCount(line) < 2 ELSE FieldCount(line, ",") < nargs

\* rows of the carlson input that are not empty and have at least nargs fields
ValidRows == { i \in 1..Len(fin) : fin[i] # <<>> /\ FieldCount(fin[i], ",") >= nargs }

\* the first nargs fields of every such row parse as numbers
ParsableRows ==
  \A i \in ValidRows : \A j \in 1..nargs : stod(FieldAt(fin[i], ",", j)).ok

\* extractor: index of the first start-marker line (Len(fin)+1 if none), and of
\* the first line after it that ends the block (Len(fin)+1 if none)
StartSet == { i \in 1..Len(fin) : Find(fin[i], StartMarker) }
FirstStart ==
  IF StartSet = {} THEN Len(fin) + 1 ELSE CHOOSE i \in StartSet : \A j \in StartSet : i <= j
TermSet == { i \in (FirstStart + 1)..Len(fin) : IsTerminator(fin[i]) }
FirstTerm ==
  IF TermSet = {} THEN Len(fin) + 1 ELSE CHOOSE i \in TermSet : \A j \in TermSet : i <= j

\* positions of a line where SC_(<number>) begins, and the number captured there
MatchStarts(line) ==
  { p \in 1..(Len(line) - 3) :
      /\ SubSeq(line, p, p + 3) = <<"S", "C", "_", "(">>
      /\ \E q \in (p + 5)..Len(line) :
           line[q] = ")" /\ IsNumber(SubSeq(line, p + 4, q - 1)) }
Capture(line, p) ==
  LET q == CHOOSE q \in (p + 5)..Len(line) :
             line[q] = ")" /\ IsNumber(SubSeq(line, p + 4, q - 1))
  IN  SubSeq(line, p + 4, q - 1)
NthMatch(line, j) ==
  CHOOSE p \in MatchStarts(line) :
    Cardinality({ q \in MatchStarts(line) : q < p }) = j - 1

\* o is the captured numbers of line, in order, joined by single blanks
IsJoined(o, line) ==
  LET n == Cardinality(MatchStarts(line))
  IN  /\ o # <<>>
      /\ FieldCount(o, " ") = n
      /\ \A j \in 1..n : FieldAt(o, " ", j) = Capture(line, NthMatch(line, j))

\* ------------------------------------------------------------------------
\* Properties
\* ------------------------------------------------------------------------

\* C1: when process_carlson returns, and the first nargs fields of every row
\* that has them parse as numbers, the output file holds exactly one record per
\* input line that is non-empty and has at least nargs comma-separated fields,
\* in the order of the input, each computed from the fields of its line, and
\* no record for any other line.
C1_OneRecordPerValidRow ==
  (prog = "carlson" /\ pc = "returned" /\ in_ok /\ out_ok /\ ParsableRows) =>
    /\ Len(disk) = Cardinality(ValidRows)
    /\ Len(src) = Len(disk)
    /\ Increasing(src)
    /\ Range(src) = ValidRows
    /\ \A k \in 1..Len(disk) :
         disk[k].res = [j \in 1..nargs |-> stod(FieldAt(fin[src[k]], ",", j)).val]

C1_Witness ==
  /\ prog = "carlson" /\ pc = "returned" /\ in_ok /\ out_ok /\ ParsableRows
  /\ Len(disk) >= 2
  /\ \E i \in 1..Len(fin) : i \notin ValidRows

\* C2: in every program, once a file failed to open the run has exited with
\* status 1 after the diagnostic, without processing a row or printing a
\* success message (so status 0 is only returned when both files opened).
C2_OpenFailureAborts ==
  (pc \notin {"start", "call"} /\ ~(in_ok /\ out_ok)) =>
    /\ pc = "exit1"
    /\ pos = 0
    /\ "Generated" \notin Range(msgs)
    /\ "Cannot open file" \in Range(msgs)

\* C3: in both generators a row with fewer fields than required is skipped
\* silently: no record comes from it and the run does not stop at it.
C3_ShortRowsSkipped ==
  Generator =>
    /\ \A k \in 1..Len(src) : ~ShortRow(fin[src[k]])
    /\ pc \in {"aborted", "crashed"} => ~ShortRow(fin[pos])

\* C4: when the extractor has finished, the output file holds, in the order of
\* the input, exactly one line for each line of the block that holds the marker
\* and at least one SC_(<number>), made of the captured numbers of that line in
\* their order, joined by single blanks without a trailing blank; lines with
\* the marker but no match, or without the marker, give no line.
C4_RowsJoined ==
  (prog = "extract" /\ pc = "exit0" /\ in_ok /\ out_ok) =>
    /\ Len(src) = Len(disk)
    /\ Increasing(src)
    /\ Range(src) = { i \in (FirstStart + 1)..(FirstTerm - 1) :
                        i <= Len(fin) /\ Find(fin[i], RowMarker) /\ MatchStarts(fin[i]) # {} }
    /\ \A k \in 1..Len(disk) : IsJoined(disk[k], fin[src[k]])

C4_Witness ==
  /\ prog = "extract" /\ pc = "exit0" /\ in_ok /\ out_ok
  /\ Len(disk) >= 1
  /\ \E k \in 1..Len(disk) : Cardinality(MatchStarts(fin[src[k]])) >= 2
  /\ \E i \in (FirstStart + 1)..(FirstTerm - 1) :
       i <= Len(fin) /\ Find(fin[i], RowMarker) /\ MatchStarts(fin[i]) = {}
  /\ \E i \in (FirstStart + 1)..(FirstTerm - 1) :
       i <= Len(fin) /\ ~Find(fin[i], RowMarker) /\ fin[i] # <<>>

\* C5: if no input line holds the start marker, the extractor writes nothing,
\* whatever the lines hold, and never reaches an error exit.
C5_NoStartNoOutput ==
  (prog = "extract" /\ StartSet = {}) =>
    /\ out = <<>>
    /\ disk = <<>>
    /\ msgs = <<>>
    /\ pc \in {"start", "scan", "block", "exit0"}

C5_Witness ==
  /\ prog = "extract" /\ StartSet = {} /\ in_ok /\ out_ok
  /\ pc = "exit0"
  /\ \E i \in 1..Len(fin) : MatchStarts(fin[i]) # {}

\* C6 as stated: the leading fields of every record are the text of the first
\* n fields of its input line (for process_carlson: the text up to the n-th
\* comma), followed by the delimiter.
C6_FieldsEchoedVerbatim ==
  \A k \in 1..Len(out) :
    LET line == fin[src[k]]
        pre  == out[k].pre
    IN  /\ prog = "carlson" =>
             pre = SubSeq(line, 1, NthPos(line, ",", nargs) - 1) \o <<",">>
        /\ prog = "ellippi" =>
             \A j \in 1..2 :
               j <= WordCount(line) => split_words(pre)[j] = split_words(line)[j]

\* C6 amended: the whitespace generator echoes the whole input line unchanged,
\* followed by four blanks and the result; process_carlson writes n fields
\* followed by a comma and the result, where output field j reads back as the
\* same double as input field j (its text need not be that of the input).
C6_FieldsValuePreserved ==
  \A k \in 1..Len(out) :
    LET line == fin[src[k]]
        pre  == out[k].pre
    IN  /\ prog = "carlson" =>
             /\ FieldCount(pre, ",") = nargs + 1
             /\ FieldAt(pre, ",", nargs + 1) = <<>>
             /\ \A j \in 1..nargs :
                  /\ stod(FieldAt(pre, ",", j)).ok
                  /\ stod(FieldAt(pre, ",", j)).val = stod(FieldAt(line, ",", j)).val
                  /\ out[k].res[j] = stod(FieldAt(line, ",", j)).val
        /\ prog = "ellippi" => pre = line \o <<" ", " ", " ", " ">>

C6_Witness ==
  /\ prog = "carlson" /\ out_ok
  /\ \E k \in 1..Len(out) :
       out[k].pre # SubSeq(fin[src[k]], 1, NthPos(fin[src[k]], ",", nargs) - 1) \o <<",">>

\* C7: a second run of a generator on the same input leaves the output file
\* with the content the first run left.
C7_RerunIdentical ==
  (Generator /\ run = 2 /\ Exited) => disk = prev_disk

\* C8: no output comes from a line after a line of the block whose trimmed
\* content is the short closing-brace marker, also when that line is indented.
C8_TrimmedCloseTerminates ==
  prog = "extract" =>
    \A k \in 1..Len(src) :
      ~\E i \in (FirstStart + 1)..(src[k] - 1) :
          Find(Trimmed(fin[i]), CloseMarker) /\ Len(Trimmed(fin[i])) < CloseLenLimit

\* C9: the extractor moves Scanning-For-Start -> In-Block -> Done and never
\* back: while scanning no start line has been read and nothing is written; in
\* the block the start line has been read (or the input is exhausted) and no
\* terminator has; after the terminator no further line is read; and every
\* output line comes from a line strictly between the first start line and the
\* first terminator after it.
C9_ForwardOnly ==
  prog = "extract" =>
    /\ \A k \in 1..Len(src) : FirstStart < src[k] /\ src[k] < FirstTerm
    /\ pc = "scan" => pos < FirstStart /\ out = <<>>
    /\ pc = "block" => (pos >= FirstStart \/ pos = Len(fin)) /\ pos < FirstTerm
    /\ pc = "done" => pos = FirstTerm
    /\ pc = "exit0" => pos = (IF FirstTerm <= Len(fin) THEN FirstTerm ELSE Len(fin))

C9_Witness ==
  /\ prog = "extract" /\ pc = "exit0" /\ in_ok /\ out_ok
  /\ Len(disk) >= 1
  /\ \E i \in (FirstTerm + 1)..Len(fin) : MatchStarts(fin[i]) # {}

\* C10: after a run was aborted by a failed std::stod on a field of a row (no
\* short row having been read), the output file holds the records of all valid
\* rows that preceded the failing row.
C10_AbortKeepsWrittenRecords ==
  (/\ Generator /\ pc = "aborted" /\ out_ok
   /\ \A i \in 1..pos : ~ShortRow(fin[i])) => disk = out

====
